---- MODULE Spec2Model ----
(***************************************************************************)
(* floydWarshall (src/floyd_warshall.cc): all-pairs shortest paths with a  *)
(* next matrix for path reconstruction and a negative-cycle flag.          *)
(*                                                                         *)
(* Spec     : the function executed statement by statement, on every       *)
(*            input an int and a vector of int triples can carry within    *)
(*            the bounds (a negative vertex count, an endpoint one past    *)
(*            the last vertex and a weight near INT_MAX included).         *)
(* SpecCall : the function applied as a whole to valid inputs with small   *)
(*            weights.                                                     *)
(***************************************************************************)
EXTENDS Integers, Sequences, FiniteSets

VARIABLES
    numVertices,    \* the parameter numVertices (line 29)
    edges,          \* the parameter edges: a sequence of <<u, v, weight>> (line 29)
    dist,           \* the distance matrix (line 30)
    next,           \* the next matrix (line 31)
    negativeCycle,  \* the flag (line 52)
    pc,             \* the statement the call is at
    k, i, j,        \* the loop counters (lines 33, 42-44, 53)
    e,              \* the position of the edge loop in edges (line 36)
    overflowed      \* history: a sum of line 45 has left the range of int

vars == <<numVertices, edges, dist, next, negativeCycle, pc, k, i, j, e, overflowed>>

(* ------------------------------ constants ------------------------------ *)

INT_MAX == 2147483647

INT_MIN == -INT_MAX - 1

NONE == -1

(* ------------------------------- bounds -------------------------------- *)

MaxV == 3

MaxEdges == 2

\* Edge weights of the valid small inputs.
Weights == {-1, 1, 2}

\* A weight whose double leaves the range of int.
BigW == INT_MAX - 1

(* --------------------------- int arithmetic ---------------------------- *)

\* a + b leaves the range of int (signed overflow: undefined behaviour).
AddOverflows(a, b) ==
    IF a > 0 /\ b > 0 THEN a > INT_MAX - b
    ELSE IF a < 0 /\ b < 0 THEN a < INT_MIN - b
    ELSE FALSE

\* a + b as a two's complement build computes it (mod 2^32, no trap).
AddWrap(a, b) ==
    IF a > 0 /\ b > 0 /\ a > INT_MAX - b
        THEN (a - INT_MAX - 1) + (b - INT_MAX - 1)
    ELSE IF a < 0 /\ b < 0 /\ a < INT_MIN - b
        THEN (a + INT_MAX + 1) + (b + INT_MAX + 1)
    ELSE a + b

(* ------------------------- statements of the code ---------------------- *)

Vertices(n) == 0 .. (n - 1)

\* vector<vector<int>>(numVertices, vector<int>(numVertices, fill))
Matrix(n, fill) == [a \in Vertices(n) |-> [b \in Vertices(n) |-> fill]]

\* LoadEdge keeping the smaller weight of parallel edges.
LoadEdgeMin(m, edge) ==
    IF edge[3] < m.dist[edge[1]][edge[2]]
    THEN [m EXCEPT !.dist[edge[1]][edge[2]] = edge[3],
                   !.next[edge[1]][edge[2]] = edge[2]]
    ELSE m

\* dist[u][v] = weight; next[u][v] = v;
LoadEdge(m, edge) ==
    [m EXCEPT !.dist[edge[1]][edge[2]] = edge[3],
              !.next[edge[1]][edge[2]] = edge[2]]

\* The condition of the relaxation, its sum computed in int.
RelaxCond(d, kk, a, b) ==
    /\ d[a][kk] # INT_MAX
    /\ d[kk][b] # INT_MAX
    /\ AddWrap(d[a][kk], d[kk][b]) < d[a][b]

\* The body of the innermost loop for intermediate kk and the cell (a, b).
RelaxCell(m, kk, a, b) ==
    IF RelaxCond(m.dist, kk, a, b)
    THEN [m EXCEPT !.dist[a][b] = AddWrap(m.dist[a][kk], m.dist[kk][b]),
                   !.next[a][b] = m.next[a][kk]]
    ELSE m

\* The sum the relaxation of (a, b) through kk evaluates overflows.
RelaxOverflows(d, kk, a, b) ==
    /\ d[a][kk] # INT_MAX
    /\ d[kk][b] # INT_MAX
    /\ AddOverflows(d[a][kk], d[kk][b])

\* IsNegative with <= for <.
IsNegativeOrZero(d, a) == d[a][a] <= 0

\* The test of the final loop.
IsNegative(d, a) == d[a][a] < 0

\* DiagInit with the loop started at 1.
DiagInitFromOne(d, n) ==
    [a \in Vertices(n) |-> IF a >= 1 THEN [d[a] EXCEPT ![a] = 0] ELSE d[a]]

\* Lines 33-35: the diagonal loop.
DiagInit(d, n) == [a \in Vertices(n) |-> [d[a] EXCEPT ![a] = 0]]

\* m1 \in {x} below binds m1 to the value of x before the loop goes on; it
\* only fixes the order of evaluation.

\* Lines 36-41: the edge loop from position idx on, in input order.
RECURSIVE LoadEdges(_, _, _)
LoadEdges(m, es, idx) ==
    IF idx > Len(es) THEN m
    ELSE CHOOSE r \in {LoadEdges(m1, es, idx + 1) : m1 \in {LoadEdge(m, es[idx])}} : TRUE

\* The loop counters after the cell (kk, a, b) of lines 42-44.
NextCell(n, kk, a, b) ==
    IF b + 1 < n THEN <<kk, a, b + 1>>
    ELSE IF a + 1 < n THEN <<kk, a + 1, 0>>
    ELSE <<kk + 1, 0, 0>>

\* m with the record that the sum evaluated for (kk, a, b) overflowed.
NoteOverflow(m, kk, a, b) ==
    IF RelaxOverflows(m.dist, kk, a, b) THEN [m EXCEPT !.overflowed = TRUE] ELSE m

\* Line 44: the loop over j from b on.
RECURSIVE LoopJ(_, _, _, _, _)
LoopJ(m, n, kk, a, b) ==
    IF b >= n THEN m
    ELSE CHOOSE r \in {LoopJ(m1, n, kk, a, b + 1) :
                        m1 \in {RelaxCell(NoteOverflow(m, kk, a, b), kk, a, b)}} : TRUE

\* Line 43: the loop over i from a on.
RECURSIVE LoopI(_, _, _, _)
LoopI(m, n, kk, a) ==
    IF a >= n THEN m
    ELSE CHOOSE r \in {LoopI(m1, n, kk, a + 1) : m1 \in {LoopJ(m, n, kk, a, 0)}} : TRUE

\* Line 42: the loop over k from kk on.
RECURSIVE LoopK(_, _, _)
LoopK(m, n, kk) ==
    IF kk >= n THEN m
    ELSE CHOOSE r \in {LoopK(m1, n, kk + 1) : m1 \in {LoopI(m, n, kk, 0)}} : TRUE

\* Lines 52-58: the final loop with its break.
NegativeCycle(d, n) == \E a \in Vertices(n) : IsNegative(d, a)

\* Lines 30-35: the matrices before the edges are read.
Start(n) ==
    [dist |-> DiagInit(Matrix(n, INT_MAX), n), next |-> Matrix(n, NONE),
     overflowed |-> FALSE]

\* Lines 52-60: the flag and the return value.
Finish(m, n) ==
    [dist |-> m.dist, next |-> m.next,
     negativeCycle |-> NegativeCycle(m.dist, n),
     overflowed |-> m.overflowed]

\* Lines 29-61 on a valid input.
floydWarshall(n, es) == Finish(LoopK(LoadEdges(Start(n), es, 1), n, 0), n)

(* ------------------------------- inputs -------------------------------- *)

SeqsUpTo(S, n) == UNION {[1 .. len -> S] : len \in 0 .. n}

InRange(n, edge) == edge[1] \in Vertices(n) /\ edge[2] \in Vertices(n)

ValidInput ==
    /\ numVertices >= 0
    /\ \A x \in 1 .. Len(edges) : InRange(numVertices, edges[x])

(* ------------------------ statement-level steps ------------------------ *)

Init ==
    /\ numVertices \in -1 .. MaxV
    /\ edges \in SeqsUpTo((0 .. numVertices) \X (0 .. numVertices) \X (Weights \cup {BigW}),
                          MaxEdges)
    /\ dist = <<>>
    /\ next = <<>>
    /\ negativeCycle = FALSE
    /\ pc = "construct"
    /\ k = 0
    /\ i = 0
    /\ j = 0
    /\ e = 1
    /\ overflowed = FALSE

\* Lines 30-31: a negative count converts to a size above max_size() and the
\* vector constructor throws std::length_error.
Construct ==
    /\ pc = "construct"
    /\ IF numVertices < 0
       THEN /\ pc' = "length_error"
            /\ UNCHANGED <<dist, next>>
       ELSE /\ dist' = Matrix(numVertices, INT_MAX)
            /\ next' = Matrix(numVertices, NONE)
            /\ pc' = "diag"
    /\ i' = 0
    /\ UNCHANGED <<numVertices, edges, negativeCycle, k, j, e, overflowed>>

\* Lines 33-35: one iteration of the diagonal loop, or its exit.
InitDiag ==
    /\ pc = "diag"
    /\ IF i < numVertices
       THEN /\ dist' = [dist EXCEPT ![i][i] = 0]
            /\ i' = i + 1
            /\ pc' = "diag"
       ELSE /\ dist' = dist
            /\ i' = i
            /\ pc' = "edges"
    /\ e' = 1
    /\ UNCHANGED <<numVertices, edges, next, negativeCycle, k, j, overflowed>>

\* Lines 36-41: one iteration of the edge loop on an edge with both
\* endpoints in range, or the loop's exit.
LoadEdgeStep ==
    /\ pc = "edges"
    /\ IF e <= Len(edges)
       THEN /\ InRange(numVertices, edges[e])
            /\ dist' = LoadEdge([dist |-> dist, next |-> next], edges[e]).dist
            /\ next' = LoadEdge([dist |-> dist, next |-> next], edges[e]).next
            /\ e' = e + 1
            /\ pc' = "edges"
       ELSE /\ UNCHANGED <<dist, next, e>>
            /\ pc' = "relax"
    /\ k' = 0
    /\ i' = 0
    /\ j' = 0
    /\ UNCHANGED <<numVertices, edges, negativeCycle, overflowed>>

\* Lines 39-40 on an edge with an endpoint outside [0, numVertices):
\* operator[] is unchecked, the write is undefined behaviour. The write lands
\* outside both matrices: the process is killed ("segv") or goes on with the
\* matrices as they were ("stray").
LoadEdgeOutOfRange ==
    /\ pc = "edges"
    /\ e <= Len(edges)
    /\ ~InRange(numVertices, edges[e])
    /\ \E outcome \in {"segv", "stray"} :
          IF outcome = "segv"
          THEN pc' = "segv" /\ e' = e
          ELSE pc' = "edges" /\ e' = e + 1
    /\ UNCHANGED <<numVertices, edges, dist, next, negativeCycle, k, i, j, overflowed>>

\* Lines 45-48 for the cell (k, i, j) when the sum stays in range (or is not
\* evaluated), then the loop counters advance.
RelaxStep ==
    /\ pc = "relax"
    /\ k < numVertices
    /\ ~RelaxOverflows(dist, k, i, j)
    /\ dist' = RelaxCell([dist |-> dist, next |-> next], k, i, j).dist
    /\ next' = RelaxCell([dist |-> dist, next |-> next], k, i, j).next
    /\ k' = NextCell(numVertices, k, i, j)[1]
    /\ i' = NextCell(numVertices, k, i, j)[2]
    /\ j' = NextCell(numVertices, k, i, j)[3]
    /\ UNCHANGED <<numVertices, edges, negativeCycle, pc, e, overflowed>>

\* Line 45 when dist[i][k] + dist[k][j] overflows int: undefined behaviour.
\* A two's complement build goes on with the wrapped sum ("wrap"); a build
\* that traps on signed overflow aborts ("trap").
RelaxStepOverflow ==
    /\ pc = "relax"
    /\ k < numVertices
    /\ RelaxOverflows(dist, k, i, j)
    /\ overflowed' = TRUE
    /\ \E outcome \in {"wrap", "trap"} :
          IF outcome = "wrap"
          THEN /\ dist' = RelaxCell([dist |-> dist, next |-> next], k, i, j).dist
               /\ next' = RelaxCell([dist |-> dist, next |-> next], k, i, j).next
               /\ k' = NextCell(numVertices, k, i, j)[1]
               /\ i' = NextCell(numVertices, k, i, j)[2]
               /\ j' = NextCell(numVertices, k, i, j)[3]
               /\ pc' = "relax"
          ELSE /\ pc' = "trap"
               /\ UNCHANGED <<dist, next, k, i, j>>
    /\ UNCHANGED <<numVertices, edges, negativeCycle, e>>

\* Line 42 when k reaches numVertices, and line 52.
RelaxDone ==
    /\ pc = "relax"
    /\ k >= numVertices
    /\ negativeCycle' = FALSE
    /\ i' = 0
    /\ pc' = "check"
    /\ UNCHANGED <<numVertices, edges, dist, next, k, j, e, overflowed>>

\* Lines 53-60: one iteration of the final loop (with its break), or its
\* exit and the return.
CheckStep ==
    /\ pc = "check"
    /\ IF i < numVertices
       THEN IF IsNegative(dist, i)
            THEN negativeCycle' = TRUE /\ pc' = "done" /\ i' = i
            ELSE negativeCycle' = negativeCycle /\ pc' = "check" /\ i' = i + 1
       ELSE negativeCycle' = negativeCycle /\ pc' = "done" /\ i' = i
    /\ UNCHANGED <<numVertices, edges, dist, next, k, j, e, overflowed>>

Next ==
    \/ Construct
    \/ InitDiag
    \/ LoadEdgeStep
    \/ LoadEdgeOutOfRange
    \/ RelaxStep
    \/ RelaxStepOverflow
    \/ RelaxDone
    \/ CheckStep

Spec == Init /\ [][Next]_vars

(* --------------------------- the call as a whole ----------------------- *)

InitCall ==
    /\ numVertices \in 0 .. MaxV
    /\ edges \in SeqsUpTo(Vertices(numVertices) \X Vertices(numVertices) \X Weights,
                          MaxEdges)
    /\ dist = <<>>
    /\ next = <<>>
    /\ negativeCycle = FALSE
    /\ pc = "call"
    /\ k = 0
    /\ i = 0
    /\ j = 0
    /\ e = 1
    /\ overflowed = FALSE

\* floydWarshall(numVertices, edges) and its return value. A call that
\* evaluated an overflowing sum has no defined result.
Call ==
    /\ pc = "call"
    /\ \E r \in {floydWarshall(numVertices, edges)} :
          IF r.overflowed
          THEN /\ pc' = "undefined"
               /\ overflowed' = TRUE
               /\ UNCHANGED <<dist, next, negativeCycle>>
          ELSE /\ pc' = "returned"
               /\ overflowed' = FALSE
               /\ dist' = r.dist
               /\ next' = r.next
               /\ negativeCycle' = r.negativeCycle
    /\ UNCHANGED <<numVertices, edges, k, i, j, e>>

NextCall == Call

SpecCall == InitCall /\ [][NextCall]_vars

(* ------------------- the graph and its shortest paths ------------------ *)

\* The graph of an edge list: for each (source, destination) pair the weight
\* of the last edge of the list with that pair.
HasEdge(es, u, v) == \E x \in 1 .. Len(es) : es[x][1] = u /\ es[x][2] = v

LastIndex(es, u, v) ==
    CHOOSE x \in 1 .. Len(es) :
        /\ es[x][1] = u /\ es[x][2] = v
        /\ \A y \in (x + 1) .. Len(es) : ~(es[y][1] = u /\ es[y][2] = v)

EdgeWeight(es, u, v) == es[LastIndex(es, u, v)][3]

\* The edges of the list that no later edge of the same pair follows.
KeepLast(es) ==
    SelectSeq([x \in 1 .. Len(es) |-> <<es[x], x>>],
              LAMBDA p : LastIndex(es, p[1][1], p[1][2]) = p[2])

EdgesOf(ps) == [x \in 1 .. Len(ps) |-> ps[x][1]]

\* Path weights: an integer, or Inf when there is no path (or the weight
\* is INT_MAX or more).
Inf == INT_MAX

PlusW(a, b) ==
    IF a = Inf \/ b = Inf THEN Inf
    ELSE IF AddOverflows(a, b) THEN (IF a > 0 THEN Inf ELSE INT_MIN)
    ELSE IF a + b > Inf THEN Inf ELSE a + b

MinOf(S) == CHOOSE x \in S \cup {Inf} : \A y \in S \cup {Inf} : x <= y

\* The least weight of a path a -> m1 -> ... -> b of at least one edge whose
\* intermediate vertices m1, ... are distinct members of allowed (Inf if
\* there is none); allowed holds neither a nor b.
RECURSIVE MinSimple(_, _, _, _)
MinSimple(es, a, b, allowed) ==
    MinOf({EdgeWeight(es, a, b) : x \in {y \in {0} : HasEdge(es, a, b)}}
          \cup {PlusW(EdgeWeight(es, a, m), MinSimple(es, m, b, allowed \ {m})) :
                  m \in {y \in allowed : HasEdge(es, a, y)}})

\* A directed cycle of negative total weight exists among the vertices 0..n-1.
HasNegCycle(es, n) ==
    \E a \in Vertices(n) : MinSimple(es, a, a, Vertices(n) \ {a}) < 0

\* Without a negative cycle: the least weight of a path from a to b whose
\* intermediate vertices lie in S; the path of no edge counts when a = b.
PathWeight(es, a, b, S) ==
    IF a = b THEN 0 ELSE MinSimple(es, a, b, S \ {a, b})

\* The vertices visited from c to b by following nx[.][b], at most fuel hops;
\* the empty sequence when none is read or the hops run out.
RECURSIVE FollowNext(_, _, _, _)
FollowNext(nx, c, b, fuel) ==
    IF c = b THEN <<c>>
    ELSE IF fuel = 0 \/ nx[c][b] = NONE THEN <<>>
    ELSE LET rest == FollowNext(nx, nx[c][b], b, fuel - 1)
         IN  IF rest = <<>> THEN <<>> ELSE <<c>> \o rest

RECURSIVE WalkWeight(_, _, _)
WalkWeight(es, p, x) ==
    IF x >= Len(p) THEN 0
    ELSE PlusW(EdgeWeight(es, p[x], p[x + 1]), WalkWeight(es, p, x + 1))

V == Vertices(numVertices)

Returned == pc = "returned"

\* The matrices exist (statement-level steps).
Constructed == pc \in {"diag", "edges", "relax", "check", "done", "segv", "trap"}

DiagonalInitialised == pc \in {"edges", "relax", "check", "done", "segv", "trap"}

\* The statement-level steps and the call as a whole return the same result
\* on a valid input whose sums stay in range.
StepsAgreeWithCall ==
    (ValidInput /\ pc = "done" /\ ~overflowed) =>
        \A r \in {floydWarshall(numVertices, edges)} :
            /\ ~r.overflowed
            /\ dist = r.dist
            /\ next = r.next
            /\ negativeCycle = r.negativeCycle

(* ------------------- the three cases of testFloydWarshall -------------- *)

\* A matrix as the sequence of its rows.
Rows(f) == [x \in 1 .. Cardinality(DOMAIN f) |->
              [y \in 1 .. Cardinality(DOMAIN f[x - 1]) |-> f[x - 1][y - 1]]]

\* Lines 64-102.
TestCase1 ==
    \A r \in {floydWarshall(5, << <<0, 1, 10>>, <<0, 3, 5>>, <<1, 3, 2>>, <<1, 2, 1>>,
                                  <<2, 4, 4>>, <<3, 1, 3>>, <<3, 2, 9>>, <<3, 4, 2>>,
                                  <<4, 2, 6>> >>)} :
        /\ ~r.negativeCycle
        /\ Rows(r.dist) = << <<0, 8, 9, 5, 7>>,
                             <<INT_MAX, 0, 1, 2, 4>>,
                             <<INT_MAX, INT_MAX, 0, INT_MAX, 4>>,
                             <<INT_MAX, 3, 4, 0, 2>>,
                             <<INT_MAX, INT_MAX, 6, INT_MAX, 0>> >>
        /\ Rows(r.next) = << <<-1, 3, 3, 3, 3>>,
                             <<-1, -1, 2, 3, 3>>,
                             <<-1, -1, -1, -1, 4>>,
                             <<-1, 1, 1, -1, 4>>,
                             <<-1, -1, 2, -1, -1>> >>

\* Lines 104-113.
TestCase2 ==
    floydWarshall(3, << <<0, 1, -1>>, <<1, 2, -2>>, <<2, 0, -3>> >>).negativeCycle

\* Lines 115-144.
TestCase3 ==
    \A r \in {floydWarshall(4, << <<0, 1, -2>>, <<1, 2, 3>>, <<2, 3, -4>>, <<0, 3, 1>> >>)} :
        /\ ~r.negativeCycle
        /\ Rows(r.dist) = << <<0, -2, 1, -3>>,
                             <<INT_MAX, 0, 3, -1>>,
                             <<INT_MAX, INT_MAX, 0, -4>>,
                             <<INT_MAX, INT_MAX, INT_MAX, 0>> >>
        /\ Rows(r.next) = << <<-1, 1, 1, 1>>,
                             <<-1, -1, 2, 2>>,
                             <<-1, -1, -1, 3>>,
                             <<-1, -1, -1, -1>> >>

\* The assertions of testFloydWarshall hold of the model.
TestsPass == TestCase1 /\ TestCase2 /\ TestCase3

(* -------------------------------- claims ------------------------------- *)

\* C1: without a negative cycle (and without overflow) the returned
\* dist[a][b] is the least weight of a path from a to b, the path of no edge
\* allowed when a = b, and INT_MAX exactly when there is no path.
C1_DistIsShortest ==
    (Returned /\ ~HasNegCycle(edges, numVertices)) =>
        \A a \in V, b \in V : dist[a][b] = PathWeight(edges, a, b, V)

\* C1 away from vertices that carry a self-loop of positive weight.
C1_ExceptPositiveSelfLoops ==
    (Returned /\ ~HasNegCycle(edges, numVertices)) =>
        \A a \in V, b \in V :
            (a = b /\ HasEdge(edges, a, a) /\ EdgeWeight(edges, a, a) > 0)
            \/ dist[a][b] = PathWeight(edges, a, b, V)

\* C2: the returned flag is true exactly when the graph has a directed
\* cycle of negative total weight (a negative self-loop is one).
C2_FlagIffNegativeCycle ==
    Returned => (negativeCycle <=> HasNegCycle(edges, numVertices))

C2_Witness ==
    /\ Returned
    /\ negativeCycle
    /\ \A a \in V : ~HasEdge(edges, a, a)

\* The path read from next, from a to b.
ReconstructOK(a, b) ==
    LET p == FollowNext(next, a, b, numVertices)
    IN  /\ p # <<>>
        /\ \A x \in 1 .. (Len(p) - 1) : HasEdge(edges, p[x], p[x + 1])
        /\ WalkWeight(edges, p, 1) = dist[a][b]

\* C3: without a negative cycle, for every pair with a finite returned
\* distance, following next from a reaches b within numVertices hops without
\* reading -1, every hop is an edge and the hops' weights sum to dist[a][b].
C3_PathReconstruction ==
    (Returned /\ ~HasNegCycle(edges, numVertices)) =>
        \A a \in V, b \in V : dist[a][b] # INT_MAX => ReconstructOK(a, b)

\* C3 for the pairs of distinct vertices.
C3_DistinctPairs ==
    (Returned /\ ~HasNegCycle(edges, numVertices)) =>
        \A a \in V, b \in V :
            (a # b /\ dist[a][b] # INT_MAX) => ReconstructOK(a, b)

\* C4: in the returned matrices next[a][b] is not -1 exactly when
\* dist[a][b] is finite and a # b.
C4_NextIffFinite ==
    Returned =>
        \A a \in V, b \in V :
            (next[a][b] # NONE) <=> (dist[a][b] # INT_MAX /\ a # b)

\* C4 off the diagonal.
C4_OffDiagonal ==
    Returned =>
        \A a \in V, b \in V :
            a # b => ((next[a][b] # NONE) <=> (dist[a][b] # INT_MAX))

\* C5: on a valid input dist[a][a] <= 0 for every vertex at every point
\* after the diagonal is initialised, the returned matrix included.
C5_DiagonalNonPositive ==
    (ValidInput /\ DiagonalInitialised) => \A a \in V : dist[a][a] <= 0

\* C6: a sum of two finite distances that leaves the range of int is treated
\* as no improvement; no wrapped sum is stored, so no returned entry of dist
\* is below the true shortest-path weight.
C6_NeverBelowTrueWeight ==
    (ValidInput /\ pc = "done" /\ ~HasNegCycle(edges, numVertices)) =>
        \A a \in V, b \in V : dist[a][b] >= PathWeight(edges, a, b, V)

\* C6 for the calls in which no sum overflowed.
C6_WithoutOverflow ==
    (ValidInput /\ pc = "done" /\ ~overflowed /\ ~HasNegCycle(edges, numVertices)) =>
        \A a \in V, b \in V : dist[a][b] >= PathWeight(edges, a, b, V)

\* C6, the step itself: the relaxation of a cell whose sum overflows leaves
\* both matrices as they are and the call goes on.
C6_OverflowSkipsUpdate ==
    [][(pc = "relax" /\ k < numVertices /\ RelaxOverflows(dist, k, i, j))
          => (dist' = dist /\ next' = next /\ pc' = "relax")]_vars

\* C7: when edges of the list share a (source, destination) pair, the result
\* is the result for the edge list that keeps, for each pair, only its last
\* edge.
C7_LastEdgeWins ==
    (Returned /\ Len(KeepLast(edges)) < Len(edges)) =>
        \A r \in {floydWarshall(numVertices, EdgesOf(KeepLast(edges)))} :
            /\ dist = r.dist
            /\ next = r.next
            /\ negativeCycle = r.negativeCycle

C7_Witness ==
    /\ Returned
    /\ Len(edges) = 2
    /\ edges[1][1] = edges[2][1]
    /\ edges[1][2] = edges[2][2]
    /\ edges[1][1] # edges[1][2]
    /\ edges[1][3] < edges[2][3]
    /\ dist[edges[1][1]][edges[1][2]] = edges[2][3]

\* C8: with an empty edge list the result is the numVertices x numVertices
\* matrices with dist 0 on the diagonal and INT_MAX elsewhere, next -1
\* everywhere, and the flag false.
C8_EmptyEdgeList ==
    (Returned /\ edges = <<>>) =>
        /\ DOMAIN dist = V
        /\ DOMAIN next = V
        /\ \A a \in V : DOMAIN dist[a] = V /\ DOMAIN next[a] = V
        /\ \A a \in V, b \in V :
              /\ dist[a][b] = (IF a = b THEN 0 ELSE INT_MAX)
              /\ next[a][b] = NONE
        /\ negativeCycle = FALSE

C8_Witness ==
    /\ Returned
    /\ edges = <<>>
    /\ numVertices = 2
    /\ dist[0][0] = 0 /\ dist[0][1] = INT_MAX
    /\ dist[1][0] = INT_MAX /\ dist[1][1] = 0
    /\ next[0][1] = NONE
    /\ ~negativeCycle

\* C9: on an invalid input the call ends in an error before any cell of
\* dist or next is written: the matrices, if constructed at all, are as
\* constructed, and the call does not return.
C9_InvalidInputRejected ==
    ~ValidInput =>
        /\ pc # "done"
        /\ Constructed =>
              /\ dist = Matrix(numVertices, INT_MAX)
              /\ next = Matrix(numVertices, NONE)

\* C9 for a negative vertex count alone.
C9_NegativeCountThrows ==
    numVertices < 0 =>
        /\ pc \in {"construct", "length_error"}
        /\ dist = <<>>
        /\ next = <<>>

\* C10: without a negative cycle, when the outer loop has finished the
\* rounds 0 .. k-1, dist[a][b] is the least weight of a path from a to b
\* whose intermediate vertices all lie in 0 .. k-1.
C10_LoopInvariant ==
    (/\ ValidInput /\ ~overflowed /\ pc = "relax" /\ i = 0 /\ j = 0 /\ k >= 1
     /\ ~HasNegCycle(edges, numVertices)) =>
        \A a \in V, b \in V : dist[a][b] = PathWeight(edges, a, b, 0 .. (k - 1))

\* C10 away from vertices that carry a self-loop of positive weight.
C10_ExceptPositiveSelfLoops ==
    (/\ ValidInput /\ ~overflowed /\ pc = "relax" /\ i = 0 /\ j = 0 /\ k >= 1
     /\ ~HasNegCycle(edges, numVertices)) =>
        \A a \in V, b \in V :
            (a = b /\ HasEdge(edges, a, a) /\ EdgeWeight(edges, a, a) > 0)
            \/ dist[a][b] = PathWeight(edges, a, b, 0 .. (k - 1))

\* C10, second half: without a negative cycle no step of round k changes
\* row k or column k of dist.
C10_PivotRowColumnFixed ==
    [][(/\ ValidInput /\ ~overflowed' /\ pc = "relax" /\ k < numVertices
        /\ ~HasNegCycle(edges, numVertices)) =>
          \A a \in V : dist'[a][k] = dist[a][k] /\ dist'[k][a] = dist[k][a]]_vars
====
